---- MODULE Spec2Model ----
(***************************************************************************)
(* Long-Distance Call Cost Calculator (src/main.cpp).                      *)
(*                                                                         *)
(* The program is one thread: main's session loop, which calls the three   *)
(* input loops get_day_of_week, get_start_time and get_length_of_call,     *)
(* then calculate_cost_of_call, and asks whether to go on.  The model has  *)
(* two actions per pass of each input loop (prompt and read, then check),  *)
(* and one per statement group of main.  Characters are ASCII codes, a C   *)
(* string is a sequence of codes, a float is a pair <<m, e>> standing for  *)
(* m * 2^e with a 24-bit m.                                                *)
(***************************************************************************)
EXTENDS Integers, Sequences, FiniteSets, TLC

\* ------------------------------------------------------------------------
\* Bounds of the model (input domains)
\* ------------------------------------------------------------------------

\* longest call-length token built from LenChars
MaxLen == 2
\* most cost lines a session prints before only 'n' is still answered
MaxCalls == 2
\* largest hour and minute value typed at the start-time prompt
MaxHourIn == 25
MaxMinuteIn == 60

\* ------------------------------------------------------------------------
\* enum class weekday
\* ------------------------------------------------------------------------
None == 0
Monday == 1
Tuesday == 2
Wednesday == 3
Thursday == 4
Friday == 5
Saturday == 6
Sunday == 7

\* weekday_strings_[enum_val], zero-based in the source
weekday_strings_ ==
    <<"None", "Monday", "Tuesday", "Wednesday", "Thursday", "Friday",
      "Saturday", "Sunday">>

get_text_for_enum(enum_val) == weekday_strings_[enum_val + 1]

\* largest value of int, std::numeric_limits<int>::max()
INT_MAX == 2147483647

\* ------------------------------------------------------------------------
\* <cctype> in the "C" locale, on ASCII codes
\* ------------------------------------------------------------------------
isalpha(c) == (c \in 65..90) \/ (c \in 97..122)
isdigit(c) == c \in 48..57
tolower(c) == IF c \in 65..90 THEN c + 32 ELSE c

\* ------------------------------------------------------------------------
\* IEEE-754 binary32 values <<m, e>> = m * 2^e, m = 0 or 2^23 <= m < 2^24
\* ------------------------------------------------------------------------
RECURSIVE BitLen(_)
BitLen(n) == IF n = 0 THEN 0 ELSE 1 + BitLen(n \div 2)

\* round q + r/(2*half) to the nearest integer, ties to even
RoundNearestEven(q, r, half) ==
    IF r > half \/ (r = half /\ q % 2 = 1) THEN q + 1 ELSE q

\* renormalise a rounded significand that reached 2^24
Normalize(m, e) == IF m = 2^24 THEN <<2^23, e + 1>> ELSE <<m, e>>

\* static_cast<float>(int) for 0 <= n <= INT_MAX
IntToFloat(n) ==
    IF n = 0 THEN <<0, 0>>
    ELSE LET len == BitLen(n) IN
         IF len <= 24 THEN <<n * 2^(24 - len), len - 24>>
         ELSE LET s == len - 24
                  q == n \div 2^s
                  r == n % 2^s
              IN  Normalize(RoundNearestEven(q, r, 2^(s - 1)), s)

\* float * float, round to nearest even; the 48-bit product of the two
\* significands is built from 12-bit limbs
FloatMul(a, b) ==
    IF a[1] = 0 \/ b[1] = 0 THEN <<0, 0>>
    ELSE LET a1 == a[1] \div 4096
             a0 == a[1] % 4096
             b1 == b[1] \div 4096
             b0 == b[1] % 4096
             mid == a1 * b0 + a0 * b1
             lo_sum == (mid % 4096) * 4096 + a0 * b0
             lo == lo_sum % 2^24
             hi == a1 * b1 + (mid \div 4096) + (lo_sum \div 2^24)
             e == a[2] + b[2]
         IN  IF hi >= 2^23
             THEN Normalize(RoundNearestEven(hi, lo, 2^23), e + 24)
             ELSE Normalize(RoundNearestEven(2 * hi + (lo \div 2^23),
                                             lo % 2^23, 2^22), e + 23)

\* operator<<(float) under std::fixed and std::setprecision(2): the exact
\* binary value rounded to hundredths, as <<dollars, cents>>
FormatFixed2(f) ==
    IF f[1] = 0 THEN <<0, 0>>
    ELSE IF f[2] >= 0 THEN <<f[1] * 2^f[2], 0>>
    ELSE LET k == 0 - f[2]
             whole == f[1] \div 2^k
             frac == f[1] % 2^k
             c == RoundNearestEven((frac * 100) \div 2^k,
                                   (frac * 100) % 2^k, 2^(k - 1))
         IN  IF c = 100 THEN <<whole + 1, 0>> ELSE <<whole, c>>

\* ------------------------------------------------------------------------
\* calculate_cost_of_call
\* ------------------------------------------------------------------------
\* 0.15f = 0x3E19999A, 0.25f = 0x3E800000, 0.4f = 0x3ECCCCCD
weekend_rate == <<10066330, -26>>
weekday_edge_rate == <<8388608, -25>>
weekday_normal_rate == <<13421773, -25>>

\* variant: the weekend test misses Sunday
calculate_cost_of_call_sat_only(in_data) ==
    IF in_data.weekday_ = Saturday
    THEN FloatMul(IntToFloat(in_data.length_of_call_), weekend_rate)
    ELSE IF in_data.hour_ < 8 \/ in_data.hour_ > 18
    THEN FloatMul(IntToFloat(in_data.length_of_call_), weekday_edge_rate)
    ELSE FloatMul(IntToFloat(in_data.length_of_call_), weekday_normal_rate)

\* variant: the edge rate starts at hour 18 instead of after it
calculate_cost_of_call_edge_at_18(in_data) ==
    IF in_data.weekday_ = Saturday \/ in_data.weekday_ = Sunday
    THEN FloatMul(IntToFloat(in_data.length_of_call_), weekend_rate)
    ELSE IF in_data.hour_ < 8 \/ in_data.hour_ >= 18
    THEN FloatMul(IntToFloat(in_data.length_of_call_), weekday_edge_rate)
    ELSE FloatMul(IntToFloat(in_data.length_of_call_), weekday_normal_rate)

\* variant: the edge rate is missed for the hours after 18
calculate_cost_of_call_morning_only(in_data) ==
    IF in_data.weekday_ = Saturday \/ in_data.weekday_ = Sunday
    THEN FloatMul(IntToFloat(in_data.length_of_call_), weekend_rate)
    ELSE IF in_data.hour_ < 8
    THEN FloatMul(IntToFloat(in_data.length_of_call_), weekday_edge_rate)
    ELSE FloatMul(IntToFloat(in_data.length_of_call_), weekday_normal_rate)

calculate_cost_of_call(in_data) ==
    IF in_data.weekday_ = Saturday \/ in_data.weekday_ = Sunday
    THEN FloatMul(IntToFloat(in_data.length_of_call_), weekend_rate)
    ELSE IF in_data.hour_ < 8 \/ in_data.hour_ > 18
    THEN FloatMul(IntToFloat(in_data.length_of_call_), weekday_edge_rate)
    ELSE FloatMul(IntToFloat(in_data.length_of_call_), weekday_normal_rate)

\* ------------------------------------------------------------------------
\* std::to_string and get_time_formatted, as sequences of ASCII codes
\* ------------------------------------------------------------------------
RECURSIVE to_string(_)
to_string(n) ==
    IF n < 0 THEN <<45>> \o to_string(0 - n)
    ELSE IF n < 10 THEN <<48 + n>>
    ELSE to_string(n \div 10) \o <<48 + (n % 10)>>

get_time_formatted(in_data) ==
    IF in_data.minutes_ = 0
    THEN to_string(in_data.hour_) \o <<58>> \o to_string(in_data.minutes_)
             \o to_string(in_data.minutes_)
    ELSE to_string(in_data.hour_) \o <<58>> \o to_string(in_data.minutes_)

\* ------------------------------------------------------------------------
\* std::stoi on a token whose first character is a digit (the only way
\* the program calls it): the leading run of digits in base 10;
\* std::out_of_range when the value does not fit an int
\* ------------------------------------------------------------------------
RECURSIVE stoi_from(_, _, _)
stoi_from(str, i, acc) ==
    IF i > Len(str) \/ ~isdigit(str[i])
    THEN [exception |-> "none", value |-> acc]
    ELSE IF acc > (INT_MAX - (str[i] - 48)) \div 10
    THEN [exception |-> "std::out_of_range", value |-> 0]
    ELSE stoi_from(str, i + 1, acc * 10 + (str[i] - 48))

stoi(str) ==
    IF Len(str) = 0 \/ ~isdigit(str[1])
    THEN [exception |-> "std::invalid_argument", value |-> 0]
    ELSE stoi_from(str, 1, 0)

\* ------------------------------------------------------------------------
\* Input domains
\* ------------------------------------------------------------------------
\* characters typed at the weekday prompt: the letters of the codes in both
\* cases, other letters, and the non-letters next to the letter ranges
\* m M t T w W f F s S u U h H a A o x Z z   1 - @ [ ` {
DayChars ==
    {109, 77, 116, 84, 119, 87, 102, 70, 115, 83, 117, 85, 104, 72, 97, 65,
     111, 120, 90, 122, 49, 45, 64, 91, 96, 123}

HourInputs == -1..MaxHourIn
\* minutes typed at the start-time prompt
MinuteInputs == {-1, 0, 5, 45, 59, MaxMinuteIn}

\* characters of a call-length token: 0 2 - a
LenChars == {48, 50, 45, 97}
\* "2147483647", "2147483648", "99999999999"
LongTokens ==
    { <<50, 49, 52, 55, 52, 56, 51, 54, 52, 55>>,
      <<50, 49, 52, 55, 52, 56, 51, 54, 52, 56>>,
      <<57, 57, 57, 57, 57, 57, 57, 57, 57, 57, 57>> }
LenTokens == UNION {[1..n -> LenChars] : n \in 1..MaxLen} \cup LongTokens

\* characters typed at the continue prompt: n N y Y x 1 ?
QuitChars == {110, 78, 121, 89, 120, 49, 63}

\* ------------------------------------------------------------------------
\* State
\* ------------------------------------------------------------------------
VARIABLES
    pc,         \* position of main and of the input loop it is in: "start",
                \* "day", "day_check", "day_echo", "time", "time_check",
                \* "time_echo", "len", "len_check", "len_echo", "cost",
                \* "continue", "exit", "stopped", "aborted"
    input,      \* main's long_distance_call_data input
    loc,        \* locals of the loop body being executed
    msg,        \* text the last step printed after its prompt ("" if none)
    arg,        \* value printed with msg (<<>> if none)
    cin_good,   \* std::cin has neither failbit nor eofbit set
    calls,      \* cost lines printed so far
    answers,    \* branches the continue switch took so far
    exit_status,\* "running", "0" after return 0, "SIGABRT" after terminate
    log         \* what the current session iteration did so far, in order:
                \* its prompts (a prompt repeated after a rejection is
                \* logged once), accepted inputs, echoes and cost lines

vars ==
    <<pc, input, loc, msg, arg, cin_good, calls, answers, exit_status, log>>

\* log after a prompt: a prompt shown again right after itself adds nothing
Prompted(prompt) ==
    IF log # <<>> /\ log[Len(log)] = prompt THEN log ELSE Append(log, prompt)

\* long_distance_call_data's default member initialisers
long_distance_call_data ==
    [weekday_ |-> Monday, hour_ |-> 24, minutes_ |-> 0, length_of_call_ |-> 0]

NoLocals == [fn |-> "none"]

\* state of std::cin after one more read: a good stream either delivers
\* the input or fails (end of input, unparsable number); a failed stream
\* stays failed
StreamAfter == IF cin_good THEN {TRUE, FALSE} ELSE {FALSE}

Init ==
    /\ pc = "start"
    /\ input = long_distance_call_data
    /\ loc = NoLocals
    /\ msg = ""
    /\ arg = <<>>
    /\ cin_good = TRUE
    /\ calls = 0
    /\ answers = <<>>
    /\ exit_status = "running"
    /\ log = <<>>

\* variant: input is declared outside the loop and keeps its fields
Start_keeps_record ==
    /\ pc = "start"
    /\ input' = input
    /\ loc' = NoLocals
    /\ msg' = "Hello. Let's calculate the cost of your long-distance call."
    /\ arg' = <<>>
    /\ pc' = "day"
    /\ log' = <<>>
    /\ UNCHANGED <<cin_good, calls, answers, exit_status>>

\* main, lines 252-255: loop test, construction of input, greeting
Start ==
    /\ pc = "start"
    /\ input' = long_distance_call_data
    /\ loc' = NoLocals
    /\ msg' = "Hello. Let's calculate the cost of your long-distance call."
    /\ arg' = <<>>
    /\ pc' = "day"
    /\ log' = <<>>
    /\ UNCHANGED <<cin_good, calls, answers, exit_status>>

\* variant: the second letter is compared without std::tolower
day_of_week_pass_case_sensitive(first_letter, second_letter) ==
    LET reject(text) == [valid_weekday |-> FALSE, weekday |-> None,
                         msg |-> text]
        accept(day) == [valid_weekday |-> TRUE, weekday |-> day, msg |-> ""]
        first == tolower(first_letter)
        second == second_letter
    IN  IF ~isalpha(first_letter) \/ ~isalpha(second_letter) THEN reject("")
        ELSE IF first = 109 THEN accept(Monday)
        ELSE IF first = 116
             THEN IF second = 117 THEN accept(Tuesday)
                  ELSE IF second = 104 THEN accept(Thursday)
                  ELSE reject("")
        ELSE IF first = 119 THEN accept(Wednesday)
        ELSE IF first = 102 THEN accept(Friday)
        ELSE IF first = 115
             THEN IF second = 97 THEN accept(Saturday)
                  ELSE IF second = 117 THEN accept(Sunday)
                  ELSE reject("")
        ELSE reject("You entered an invalid weekday.")

\* get_day_of_week, lines 107-153: the check and the switch of one pass
\* on the two characters read
day_of_week_pass(first_letter, second_letter) ==
    LET reject(text) == [valid_weekday |-> FALSE, weekday |-> None,
                         msg |-> text]
        accept(day) == [valid_weekday |-> TRUE, weekday |-> day, msg |-> ""]
        first == tolower(first_letter)
        second == tolower(second_letter)
    IN  IF ~isalpha(first_letter) \/ ~isalpha(second_letter) THEN reject("")
        ELSE IF first = 109 THEN accept(Monday)
        ELSE IF first = 116
             THEN IF second = 117 THEN accept(Tuesday)
                  ELSE IF second = 104 THEN accept(Thursday)
                  ELSE reject("")
        ELSE IF first = 119 THEN accept(Wednesday)
        ELSE IF first = 102 THEN accept(Friday)
        ELSE IF first = 115
             THEN IF second = 97 THEN accept(Saturday)
                  ELSE IF second = 117 THEN accept(Sunday)
                  ELSE reject("")
        ELSE reject("You entered an invalid weekday.")

\* get_day_of_week, lines 98-105: loop test, prompt and read of one pass.
\* With std::cin failed the two characters are not written and hold
\* indeterminate values.
ReadDayOfWeek ==
    /\ pc = "day"
    /\ \E first_letter \in DayChars, second_letter \in DayChars,
          good \in StreamAfter :
         /\ cin_good' = good
         /\ loc' = [fn |-> "get_day_of_week",
                    first_letter |-> first_letter,
                    second_letter |-> second_letter]
    /\ msg' = ""
    /\ arg' = <<>>
    /\ pc' = "day_check"
    /\ log' = Prompted("prompt_day")
    /\ UNCHANGED <<input, calls, answers, exit_status>>

\* get_day_of_week, lines 107-154: check and switch of the pass; the two
\* characters go out of scope at the end of the loop body
CheckDayOfWeek ==
    /\ pc = "day_check"
    /\ LET r == day_of_week_pass(loc.first_letter, loc.second_letter) IN
         /\ input' = IF r.valid_weekday
                     THEN [input EXCEPT !.weekday_ = r.weekday]
                     ELSE input
         /\ msg' = r.msg
         /\ pc' = IF r.valid_weekday THEN "day_echo" ELSE "day"
         /\ log' = IF r.valid_weekday THEN Append(log, "accept_day") ELSE log
    /\ arg' = <<>>
    /\ loc' = NoLocals
    /\ UNCHANGED <<cin_good, calls, answers, exit_status>>

\* variant: main asks for the call length right after the weekday
EchoDay_then_length ==
    /\ pc = "day_echo"
    /\ msg' = "You entered: "
    /\ arg' = get_text_for_enum(input.weekday_)
    /\ pc' = "len"
    /\ log' = Append(log, "echo_day")
    /\ UNCHANGED <<input, loc, cin_good, calls, answers, exit_status>>

\* main, lines 260-262
EchoDay ==
    /\ pc = "day_echo"
    /\ msg' = "You entered: "
    /\ arg' = get_text_for_enum(input.weekday_)
    /\ pc' = "time"
    /\ log' = Append(log, "echo_day")
    /\ UNCHANGED <<input, loc, cin_good, calls, answers, exit_status>>

\* variant: the minute check forgets hour 24
start_time_pass_no_midnight(hour, minutes) ==
    IF hour < 0 \/ hour > 24
    THEN [valid_time |-> FALSE, msg |-> "You entered an invalid hour."]
    ELSE IF minutes < 0 \/ minutes > 59
    THEN [valid_time |-> FALSE, msg |-> "You entered an invalid minutes."]
    ELSE [valid_time |-> TRUE, msg |-> ""]

\* variant: the hour check lets 25 through
start_time_pass_hour_25(hour, minutes) ==
    IF hour < 0 \/ hour > 25
    THEN [valid_time |-> FALSE, msg |-> "You entered an invalid hour."]
    ELSE IF minutes < 0 \/ minutes > 59 \/ (minutes > 0 /\ hour = 24)
    THEN [valid_time |-> FALSE, msg |-> "You entered an invalid minutes."]
    ELSE [valid_time |-> TRUE, msg |-> ""]

\* get_start_time, lines 175-187: the two range checks of one pass
start_time_pass(hour, minutes) ==
    IF hour < 0 \/ hour > 24
    THEN [valid_time |-> FALSE, msg |-> "You entered an invalid hour."]
    ELSE IF minutes < 0 \/ minutes > 59 \/ (minutes > 0 /\ hour = 24)
    THEN [valid_time |-> FALSE, msg |-> "You entered an invalid minutes."]
    ELSE [valid_time |-> TRUE, msg |-> ""]

\* get_start_time, lines 165-173: loop test, prompt and read of one pass.
\* A failed extraction leaves hour or minutes zero or indeterminate; either
\* way the values go through the same checks.
ReadStartTime ==
    /\ pc = "time"
    /\ \E hour \in HourInputs, minutes \in MinuteInputs,
          good \in StreamAfter :
         /\ cin_good' = good
         /\ loc' = [fn |-> "get_start_time", hour |-> hour,
                    minutes |-> minutes]
    /\ msg' = ""
    /\ arg' = <<>>
    /\ pc' = "time_check"
    /\ log' = Prompted("prompt_time")
    /\ UNCHANGED <<input, calls, answers, exit_status>>

\* variant: the hour is stored as soon as it passed its own check
CheckStartTime_hour_first ==
    /\ pc = "time_check"
    /\ LET r == start_time_pass(loc.hour, loc.minutes) IN
         /\ input' = IF r.valid_time
                     THEN [input EXCEPT !.hour_ = loc.hour,
                                        !.minutes_ = loc.minutes]
                     ELSE IF loc.hour >= 0 /\ loc.hour <= 24
                     THEN [input EXCEPT !.hour_ = loc.hour]
                     ELSE input
         /\ msg' = r.msg
         /\ pc' = IF r.valid_time THEN "time_echo" ELSE "time"
         /\ log' = IF r.valid_time THEN Append(log, "accept_time") ELSE log
    /\ arg' = <<>>
    /\ loc' = NoLocals
    /\ UNCHANGED <<cin_good, calls, answers, exit_status>>

\* get_start_time, lines 175-188: range checks and setters of the pass
CheckStartTime ==
    /\ pc = "time_check"
    /\ LET r == start_time_pass(loc.hour, loc.minutes) IN
         /\ input' = IF r.valid_time
                     THEN [input EXCEPT !.hour_ = loc.hour,
                                        !.minutes_ = loc.minutes]
                     ELSE input
         /\ msg' = r.msg
         /\ pc' = IF r.valid_time THEN "time_echo" ELSE "time"
         /\ log' = IF r.valid_time THEN Append(log, "accept_time") ELSE log
    /\ arg' = <<>>
    /\ loc' = NoLocals
    /\ UNCHANGED <<cin_good, calls, answers, exit_status>>

\* main, lines 267-269
EchoTime ==
    /\ pc = "time_echo"
    /\ msg' = "You entered the time: "
    /\ arg' = get_time_formatted(input)
    /\ pc' = "len"
    /\ log' = Append(log, "echo_time")
    /\ UNCHANGED <<input, loc, cin_good, calls, answers, exit_status>>

\* get_length_of_call, lines 207-215: digit check and conversion of one
\* pass; an exception of std::stoi is caught nowhere
length_of_call_pass(length_of_call) ==
    IF ~isdigit(length_of_call[1])
    THEN [is_valid |-> FALSE, thrown |-> "none", value |-> 0,
          msg |-> "You did not enter a valid number."]
    ELSE LET r == stoi(length_of_call) IN
         [is_valid |-> r.exception = "none", thrown |-> r.exception,
          value |-> r.value, msg |-> ""]

\* get_length_of_call, lines 199-205: loop test, prompt and read of one
\* pass.  With std::cin failed the buffer is not written and holds
\* indeterminate characters.
ReadLengthOfCall ==
    /\ pc = "len"
    /\ \E length_of_call \in LenTokens, good \in StreamAfter :
         /\ cin_good' = good
         /\ loc' = [fn |-> "get_length_of_call",
                    length_of_call |-> length_of_call]
    /\ msg' = ""
    /\ arg' = <<>>
    /\ pc' = "len_check"
    /\ log' = Prompted("prompt_len")
    /\ UNCHANGED <<input, calls, answers, exit_status>>

\* get_length_of_call, lines 207-216: digit check, conversion and setter of
\* the pass; an exception leaving std::stoi ends the process in
\* std::terminate
CheckLengthOfCall ==
    /\ pc = "len_check"
    /\ LET r == length_of_call_pass(loc.length_of_call) IN
         /\ input' = IF r.is_valid
                     THEN [input EXCEPT !.length_of_call_ = r.value]
                     ELSE input
         /\ msg' = r.msg
         /\ pc' = IF r.thrown # "none" THEN "aborted"
                  ELSE IF r.is_valid THEN "len_echo" ELSE "len"
         /\ exit_status' = IF r.thrown # "none" THEN "SIGABRT"
                           ELSE exit_status
         /\ log' = IF r.is_valid THEN Append(log, "accept_len") ELSE log
    /\ arg' = <<>>
    /\ loc' = NoLocals
    /\ UNCHANGED <<cin_good, calls, answers>>

\* main, lines 274-276
EchoLength ==
    /\ pc = "len_echo"
    /\ msg' = "You entered: "
    /\ arg' = input.length_of_call_
    /\ pc' = "cost"
    /\ log' = Append(log, "echo_len")
    /\ UNCHANGED <<input, loc, cin_good, calls, answers, exit_status>>

\* main, lines 279-283: the cost line
PrintCost ==
    /\ pc = "cost"
    /\ loc' = [fn |-> "calculate_cost_of_call",
               total_cost |-> calculate_cost_of_call(input)]
    /\ msg' = "The cost of your call is $"
    /\ arg' = FormatFixed2(calculate_cost_of_call(input))
    /\ calls' = calls + 1
    /\ pc' = "continue"
    /\ log' = Append(log, "cost")
    /\ UNCHANGED <<input, cin_good, answers, exit_status>>

\* variant: the switch is on quit_input itself, not on its lower case
quit_switch_case_sensitive(quit_input) ==
    IF quit_input = 110
    THEN [quit |-> TRUE, branch |-> "n", msg |-> ""]
    ELSE IF quit_input = 121
    THEN [quit |-> FALSE, branch |-> "y", msg |-> ""]
    ELSE [quit |-> FALSE, branch |-> "default",
          msg |-> "I'll take that as a yes"]

\* main, lines 290-299: the switch on the character read
quit_switch(quit_input) ==
    IF tolower(quit_input) = 110
    THEN [quit |-> TRUE, branch |-> "n", msg |-> ""]
    ELSE IF tolower(quit_input) = 121
    THEN [quit |-> FALSE, branch |-> "y", msg |-> ""]
    ELSE [quit |-> FALSE, branch |-> "default",
          msg |-> "I'll take that as a yes"]

\* main, lines 286-300: the continue prompt.  quit_input is initialised to
\* 0 and keeps that value when std::cin has failed.  A session goes on
\* only while it has printed fewer than MaxCalls cost lines.
ContinuePrompt ==
    /\ pc = "continue"
    /\ \E good \in StreamAfter :
       \E quit_input \in (IF good THEN QuitChars ELSE {0}) :
         LET r == quit_switch(quit_input) IN
         /\ r.quit \/ calls < MaxCalls
         /\ cin_good' = good
         /\ loc' = [fn |-> "main", quit_input |-> quit_input]
         /\ msg' = r.msg
         /\ arg' = <<>>
         /\ answers' = Append(answers, r.branch)
         /\ pc' = IF r.quit THEN "exit" ELSE "start"
    /\ log' = Prompted("prompt_continue")
    /\ UNCHANGED <<input, calls, exit_status>>

\* main, lines 302-303
Exit ==
    /\ pc = "exit"
    /\ exit_status' = "0"
    /\ pc' = "stopped"
    /\ loc' = NoLocals
    /\ msg' = ""
    /\ arg' = <<>>
    /\ UNCHANGED <<input, cin_good, calls, answers, log>>

Next ==
    \/ Start
    \/ ReadDayOfWeek
    \/ CheckDayOfWeek
    \/ EchoDay
    \/ ReadStartTime
    \/ CheckStartTime
    \/ EchoTime
    \/ ReadLengthOfCall
    \/ CheckLengthOfCall
    \/ EchoLength
    \/ PrintCost
    \/ ContinuePrompt
    \/ Exit

Spec == Init /\ [][Next]_vars

\* The program is one thread that always takes its next step, and blocks
\* only in a read.  The user who keeps being asked eventually types, at each
\* prompt, an input that the prompt's validation is documented to accept
\* (a weekday code, a time in range, a token that starts with a digit), and
\* eventually answers n or N at the continue prompt.
WeekdaySupplied ==
    /\ ReadDayOfWeek
    /\ cin_good'
    /\ day_of_week_pass(loc'.first_letter, loc'.second_letter).valid_weekday

StartTimeSupplied ==
    /\ ReadStartTime
    /\ cin_good'
    /\ start_time_pass(loc'.hour, loc'.minutes).valid_time

CallLengthSupplied ==
    /\ ReadLengthOfCall
    /\ cin_good'
    /\ isdigit(loc'.length_of_call[1])

NoAnswered ==
    /\ ContinuePrompt
    /\ cin_good'
    /\ pc' = "exit"

FairSpec ==
    /\ Spec
    /\ WF_vars(Next)
    /\ SF_vars(WeekdaySupplied)
    /\ SF_vars(StartTimeSupplied)
    /\ SF_vars(CallLengthSupplied)
    /\ SF_vars(NoAnswered)

TypeOK ==
    /\ pc \in {"start", "day", "day_check", "day_echo", "time",
               "time_check", "time_echo", "len", "len_check", "len_echo",
               "cost", "continue", "exit", "stopped", "aborted"}
    /\ input.weekday_ \in None..Sunday
    /\ cin_good \in BOOLEAN
    /\ calls \in 0..MaxCalls

\* ------------------------------------------------------------------------
\* Claims about calculate_cost_of_call
\* ------------------------------------------------------------------------

\* the amount of minutes at cents_per_minute, as <<dollars, cents>>
ExactAmount(minutes, cents_per_minute) ==
    <<(minutes * cents_per_minute) \div 100,
      (minutes * cents_per_minute) % 100>>

\* the cost line shows the float that calculate_cost_of_call returned
CostPrinted == pc = "continue" /\ loc.fn = "calculate_cost_of_call"

\* the call is charged at rate: the returned float is the binary32 product
\* of the duration and rate, and for a duration up to 327680 minutes the
\* printed amount is the exact amount at cents_per_minute
ChargedAt(rate, cents_per_minute) ==
    /\ loc.total_cost = FloatMul(IntToFloat(input.length_of_call_), rate)
    /\ input.length_of_call_ <= 327680 =>
           arg = ExactAmount(input.length_of_call_, cents_per_minute)

\* C1: a call on Saturday or Sunday costs duration * 0.15 dollars, whatever
\* its start hour and minute.
C1_WeekendRate ==
    (CostPrinted /\ input.weekday_ \in {Saturday, Sunday}) =>
        ChargedAt(<<10066330, -26>>, 15)

\* C1 witness: Sunday 12:00, 2 minutes, printed as $0.30
C1_Witness ==
    /\ CostPrinted
    /\ input.weekday_ = Sunday
    /\ input.hour_ = 12
    /\ input.length_of_call_ = 2
    /\ arg = <<0, 30>>

C3_EdgeRate ==
    (CostPrinted /\ input.weekday_ \in Monday..Friday
                 /\ input.hour_ \in (0..7) \cup (19..24)) =>
        ChargedAt(<<8388608, -25>>, 25)

\* C3 witness: Thursday 19:45, 22 minutes, printed as $5.50
C3_Witness ==
    /\ CostPrinted
    /\ input.weekday_ = Thursday
    /\ input.hour_ = 19
    /\ input.minutes_ = 45
    /\ input.length_of_call_ = 22
    /\ arg = <<5, 50>>

\* ------------------------------------------------------------------------
\* Claims about get_day_of_week
\* ------------------------------------------------------------------------

\* a letter of either case
IsLetter(c) == c \in (65..90) \cup (97..122)

\* the weekday the documented codes give to two characters, None for
\* every other pair: m M = 109 77, t T = 116 84, w W = 119 87,
\* f F = 102 70, s S = 115 83, u U = 117 85, h H = 104 72, a A = 97 65
DocumentedWeekday(first, second) ==
    IF ~IsLetter(first) \/ ~IsLetter(second) THEN None
    ELSE IF first \in {109, 77} THEN Monday
    ELSE IF first \in {119, 87} THEN Wednesday
    ELSE IF first \in {102, 70} THEN Friday
    ELSE IF first \in {116, 84} /\ second \in {117, 85} THEN Tuesday
    ELSE IF first \in {116, 84} /\ second \in {104, 72} THEN Thursday
    ELSE IF first \in {115, 83} /\ second \in {97, 65} THEN Saturday
    ELSE IF first \in {115, 83} /\ second \in {117, 85} THEN Sunday
    ELSE None

\* C4: the check of a pass of get_day_of_week sets the weekday of a
\* documented code, in any mix of cases, and ends the loop; for every other
\* pair of characters it sets no weekday and the loop prompts again.
C4_WeekdayDecoding ==
    [][pc = "day_check" =>
         LET day == DocumentedWeekday(loc.first_letter, loc.second_letter)
         IN  IF day # None
             THEN pc' = "day_echo" /\ input'.weekday_ = day
             ELSE pc' = "day" /\ input' = input]_vars

\* C4 witness: a code was decoded to Sunday and the loop has ended
C4_Witness ==
    /\ pc = "day_echo"
    /\ input.weekday_ = Sunday
    /\ input.hour_ = 24
    /\ msg = ""

\* C5: every rejected pair of letters read from the input is answered with
\* "You entered an invalid weekday.", and only a pair with a non-letter is
\* rejected silently.
C5_RejectedCodeMessage ==
    [][(pc = "day_check" /\ cin_good /\ pc' = "day") =>
         msg' = (IF IsLetter(loc.first_letter) /\ IsLetter(loc.second_letter)
                 THEN "You entered an invalid weekday."
                 ELSE "")]_vars

\* ------------------------------------------------------------------------
\* Claims about get_start_time
\* ------------------------------------------------------------------------

\* C6: the check of a pass of get_start_time accepts hour and minutes
\* exactly when 0 <= hour <= 24, 0 <= minutes <= 59 and hour = 24 implies
\* minutes = 0; an hour out of range is answered with "You entered an
\* invalid hour.", every other rejection with "You entered an invalid
\* minutes.", and a rejection prompts again.
C6_StartTimeValidation ==
    [][pc = "time_check" =>
         LET hour_ok == loc.hour >= 0 /\ loc.hour <= 24
             minutes_ok == /\ loc.minutes >= 0
                           /\ loc.minutes <= 59
                           /\ (loc.hour = 24 => loc.minutes = 0)
         IN  IF hour_ok /\ minutes_ok
             THEN /\ pc' = "time_echo"
                  /\ input'.hour_ = loc.hour
                  /\ input'.minutes_ = loc.minutes
             ELSE /\ pc' = "time"
                  /\ msg' = (IF hour_ok
                             THEN "You entered an invalid minutes."
                             ELSE "You entered an invalid hour.")]_vars

\* C6 witness: 24:05 was rejected for its minutes in the second session
\* iteration, after a first one that accepted 24:00
C6_Witness ==
    /\ pc = "time"
    /\ msg = "You entered an invalid minutes."
    /\ calls = 1
    /\ input.hour_ = 24
    /\ input.minutes_ = 0

\* ------------------------------------------------------------------------
\* Claims about get_length_of_call
\* ------------------------------------------------------------------------

\* the value of the leading run of digits of str, from position i on
RECURSIVE LeadingDigitsValue(_, _, _)
LeadingDigitsValue(str, i, acc) ==
    IF i > Len(str) \/ str[i] \notin 48..57 THEN acc
    ELSE LeadingDigitsValue(str, i + 1, 10 * acc + (str[i] - 48))

\* C7: a token read from the input that does not start with a digit is rejected with "You did
\* not enter a valid number." and prompted again; every token that starts
\* with a digit is accepted and the stored duration is the value of its
\* leading digits, which is not negative.
C7_LengthValidation ==
    [][(pc = "len_check" /\ cin_good) =>
         IF loc.length_of_call[1] \in 48..57
         THEN /\ pc' = "len_echo"
              /\ input'.length_of_call_ =
                     LeadingDigitsValue(loc.length_of_call, 1, 0)
              /\ input'.length_of_call_ >= 0
         ELSE /\ pc' = "len"
              /\ msg' = "You did not enter a valid number."]_vars

\* C8: no input makes the program abort: while std::cin delivers input, no
\* exception ends the process.
C8_NeverAborts == cin_good => (pc # "aborted" /\ exit_status # "SIGABRT")

\* ------------------------------------------------------------------------
\* Claims about the session loop
\* ------------------------------------------------------------------------

\* the session loop has ended
Stopped == pc \in {"exit", "stopped"}

\* C9: at the continue prompt 'n' or 'N' ends the session loop, 'y' or 'Y'
\* starts another iteration without a message, every other character
\* starts another iteration with "I'll take that as a yes"; once the loop
\* has ended nothing is prompted, read or calculated.
C9_ContinuePrompt ==
    [][/\ pc = "continue" =>
            LET c == loc'.quit_input IN
            IF c \in {110, 78} THEN Stopped'
            ELSE IF c \in {121, 89} THEN pc' = "start" /\ msg' = ""
            ELSE pc' = "start" /\ msg' = "I'll take that as a yes"
       /\ Stopped =>
            /\ Stopped'
            /\ UNCHANGED <<input, cin_good, calls, answers>>]_vars

\* C9 witness: 'Y' was answered after the first cost line and the next
\* iteration is about to start
C9_Witness ==
    /\ pc = "start"
    /\ calls = 1
    /\ loc.fn = "main"
    /\ loc.quit_input = 89
    /\ msg = ""

\* C10: the process ends only with status 0 and only after 'n' or 'N' at
\* the continue prompt, so after at least one cost line; a session answered
\* y then n has printed exactly two cost lines.
C10_ExitOnlyOnNo ==
    (cin_good /\ exit_status # "running") =>
        /\ exit_status = "0"
        /\ calls >= 1
        /\ Len(answers) = calls
        /\ answers[Len(answers)] = "n"
        /\ (answers = <<"y", "n">> => calls = 2)

\* ------------------------------------------------------------------------
\* Claims about the record and the order of a session iteration
\* ------------------------------------------------------------------------

\* the entries of the log
Logged == {log[i] : i \in 1..Len(log)}

\* C11: when main is about to call calculate_cost_of_call, the record holds
\* a weekday Monday..Sunday, 0 <= hour <= 24, 0 <= minutes <= 59, minutes 0
\* at hour 24 and a duration >= 0, and each of the three inputs was accepted
\* by its validation in the current iteration.
C11_RecordValidAtCost ==
    pc = "cost" =>
        /\ input.weekday_ \in Monday..Sunday
        /\ get_text_for_enum(input.weekday_) # "None"
        /\ input.hour_ >= 0 /\ input.hour_ <= 24
        /\ input.minutes_ >= 0 /\ input.minutes_ <= 59
        /\ (input.hour_ = 24 => input.minutes_ = 0)
        /\ input.length_of_call_ >= 0
        /\ {"accept_day", "accept_time", "accept_len"} \subseteq Logged

\* C11 witness: the second iteration is about to calculate the cost of a
\* call of 20 minutes on Sunday at 23:59
C11_Witness ==
    /\ pc = "cost"
    /\ calls = 1
    /\ input.weekday_ = Sunday
    /\ input.hour_ = 23
    /\ input.minutes_ = 59
    /\ input.length_of_call_ = 20

\* the one order of the steps of a session iteration
IterationOrder ==
    <<"prompt_day", "accept_day", "echo_day",
      "prompt_time", "accept_time", "echo_time",
      "prompt_len", "accept_len", "echo_len",
      "cost", "prompt_continue">>

\* C12: the steps of an iteration happen in one fixed order: weekday
\* accepted and echoed before the first start-time prompt, start time
\* accepted and echoed before the first call-length prompt, call length
\* accepted and echoed before the cost line, continue prompt after the cost
\* line; an iteration prints exactly one cost line, and none while an input
\* is unaccepted.
C12_FixedOrder ==
    [][/\ Len(log') <= Len(IterationOrder)
       /\ log' = SubSeq(IterationOrder, 1, Len(log'))
       /\ (pc = "continue" /\ pc' # "continue") => log' = IterationOrder
      ]_vars

\* C12 witness: the second iteration went through all its steps and the
\* session loop has ended
C12_Witness ==
    /\ pc = "exit"
    /\ calls = 2
    /\ log = IterationOrder

\* cents per minute of a call by its weekday and start hour
CentsPerMinute(day, hour) ==
    IF day \in {Saturday, Sunday} THEN 15
    ELSE IF hour \in 8..18 THEN 40
    ELSE 25

\* C13: every iteration starts with a record that holds the same default
\* values whatever earlier iterations accepted; during the iteration a
\* field holds its default until its input is accepted; and the cost line
\* is a function of the weekday, hour and duration of the record alone.
\* Hence two sessions that differ only in earlier iterations print the same
\* cost for the same inputs of the current one.
C13_FreshRecord ==
    [][/\ pc = "start" =>
            input' = [weekday_ |-> Monday, hour_ |-> 24, minutes_ |-> 0,
                      length_of_call_ |-> 0]
       /\ pc' \notin {"start", "exit", "stopped"} =>
            /\ "accept_day" \notin {log'[i] : i \in 1..Len(log')} =>
                   input'.weekday_ = Monday
            /\ "accept_time" \notin {log'[i] : i \in 1..Len(log')} =>
                   input'.hour_ = 24 /\ input'.minutes_ = 0
            /\ "accept_len" \notin {log'[i] : i \in 1..Len(log')} =>
                   input'.length_of_call_ = 0
       /\ (pc = "cost" /\ input.length_of_call_ <= 327680) =>
            arg' = ExactAmount(input.length_of_call_,
                               CentsPerMinute(input.weekday_, input.hour_))
      ]_vars

\* C13 witness: after a first iteration that was answered with y, the
\* second one has started with the default record
C13_Witness ==
    /\ pc = "day"
    /\ calls = 1
    /\ answers = <<"y">>
    /\ log = <<>>
    /\ input = [weekday_ |-> Monday, hour_ |-> 24, minutes_ |-> 0,
                length_of_call_ |-> 0]

\* ------------------------------------------------------------------------
\* Claims about get_time_formatted
\* ------------------------------------------------------------------------

\* the decimal digits of n in 0..99, and the same with a leading zero
Decimal(n) ==
    IF n < 10 THEN <<48 + n>> ELSE <<48 + (n \div 10), 48 + (n % 10)>>
TwoDigits(n) == <<48 + (n \div 10), 48 + (n % 10)>>

\* C14: the echo of an accepted start time is the hour, a colon and the
\* minute written with two digits, for every valid time.
C14_TimeEchoTwoDigits ==
    (pc = "len" /\ msg = "You entered the time: " /\ cin_good) =>
        arg = Decimal(input.hour_) \o <<58>> \o TwoDigits(input.minutes_)

\* ------------------------------------------------------------------------
\* Claims about what the input loops write
\* ------------------------------------------------------------------------

\* C15: a rejected attempt of an input loop leaves the whole record as it
\* was; hour and minutes are written together or not at all; and each
\* loop writes its own field(s) only.
C15_RejectedAttemptWritesNothing ==
    [][/\ (pc = "day_check" /\ pc' = "day") => input' = input
       /\ (pc = "time_check" /\ pc' = "time") => input' = input
       /\ (pc = "len_check" /\ pc' # "len_echo") => input' = input
       /\ pc = "time_check" =>
            \/ input'.hour_ = input.hour_ /\ input'.minutes_ = input.minutes_
            \/ input'.hour_ = loc.hour /\ input'.minutes_ = loc.minutes
       /\ pc \in {"day", "day_check"} =>
            input' = [input EXCEPT !.weekday_ = input'.weekday_]
       /\ pc \in {"time", "time_check"} =>
            input' = [input EXCEPT !.hour_ = input'.hour_,
                                   !.minutes_ = input'.minutes_]
       /\ pc \in {"len", "len_check"} =>
            input' = [input EXCEPT !.length_of_call_ = input'.length_of_call_]
      ]_vars

\* C15 witness: a start time was rejected for its minutes and the record
\* still holds the accepted weekday and the default time and duration
C15_Witness ==
    /\ pc = "time"
    /\ msg = "You entered an invalid minutes."
    /\ input = [weekday_ |-> Saturday, hour_ |-> 24, minutes_ |-> 0,
                length_of_call_ |-> 0]
    /\ log = <<"prompt_day", "accept_day", "echo_day", "prompt_time">>

\* ------------------------------------------------------------------------
\* Claims about the end of the input loops and of the session
\* ------------------------------------------------------------------------

\* C16: an input loop is left only by an accepted input, so it goes on for
\* as long as every input is rejected; and when std::cin keeps delivering
\* input, an acceptable input is eventually supplied at every prompt and n
\* or N is eventually answered, the session loop eventually ends.
C16_LoopsEndOnAcceptedInput ==
    /\ [][/\ pc \in {"day", "day_check"} =>
               \/ pc' \in {"day", "day_check"}
               \/ pc' = "day_echo" /\ log' = Append(log, "accept_day")
          /\ pc \in {"time", "time_check"} =>
               \/ pc' \in {"time", "time_check"}
               \/ pc' = "time_echo" /\ log' = Append(log, "accept_time")
          /\ pc \in {"len", "len_check"} =>
               \/ pc' \in {"len", "len_check"}
               \/ pc' = "len_echo" /\ log' = Append(log, "accept_len")
         ]_vars
    /\ <>(Stopped \/ ~cin_good)

====
